---- MODULE Spec2Model ----
(***************************************************************************)
(* A model of the konnect-sdk request pipeline: the client constructor,    *)
(* the public operations, makeRequest (deadline timer, retry loop,         *)
(* exponential backoff), handleErrorResponse and wrapResponse.             *)
(*                                                                         *)
(* Conventions.                                                            *)
(*  - An optional JavaScript value (undefined / null, or a value) is a set  *)
(*    with at most one element: {} is undefined or null, {v} is v.         *)
(*  - A JavaScript string that is trimmed or matched by a regular          *)
(*    expression is a sequence of one-character strings.                   *)
(*  - An error message is a sequence of string fragments, the message      *)
(*    being their concatenation (template literals keep their parts).      *)
(*  - retryAttempts is a JavaScript number and need not be an integer; it   *)
(*    is held in halves (3 attempts is 6, 2.5 is 5), see Whole.            *)
(*  - Time is in milliseconds and advances in steps of 1000 ms.            *)
(***************************************************************************)
EXTENDS Integers, Sequences, FiniteSets, TLC

\* ------------------------------------------------------------------ bounds
\* Largest whole retryAttempts a configuration is given.
MaxRetry == 3
\* Largest timeout a configuration is given, in seconds.
MaxTimeout == 2
\* The clock stops after this many seconds.
MaxClock == 8
\* How many calls run on one client at the same time.
MaxCalls == 2
\* The clock of the concurrent calls stops after this many seconds.
MaxSessionClock == 2

\* ------------------------------------------------------- program constants
DEFAULT_TIMEOUT == 30000
DEFAULT_RETRY_ATTEMPTS == 3
BACKOFF_BASE_MS == 1000

\* ------------------------------------------------------------ optional values
Undefined == {}
Some(v) == {v}
Val(o) == CHOOSE v \in o : TRUE

\* A number n as retryAttempts holds it (in halves).
Whole(n) == 2 * n
IsInteger(r) == r % 2 = 0

\* --------------------------------------------------------------- strings
Str(s) == <<s>>
\* Whether a message (a sequence of fragments) is the empty string.
IsEmptyMessage(m) == \A i \in 1..Len(m) : m[i] = ""

\* Whether the fragment x occurs in the string m (a sequence of fragments).
Contains(m, x) == \E i \in 1..Len(m) : m[i] = x

RECURSIVE TrimStart(_)
TrimStart(s) == IF s # <<>> /\ Head(s) = " " THEN TrimStart(Tail(s)) ELSE s
RECURSIVE TrimEnd(_)
TrimEnd(s) ==
    IF s # <<>> /\ s[Len(s)] = " " THEN TrimEnd(SubSeq(s, 1, Len(s) - 1)) ELSE s
\* String.prototype.trim
Trim(s) == TrimEnd(TrimStart(s))

\* [^\s@]
NotSpaceAt(c) == c # " " /\ c # "@"
AllNotSpaceAt(s, lo, hi) == lo <= hi /\ \A k \in lo..hi : NotSpaceAt(s[k])
\* /^[^\s@]+@[^\s@]+\.[^\s@]+$/.test(email)
isValidEmail(email) ==
    \E i \in 1..Len(email) : \E j \in 1..Len(email) :
        /\ email[i] = "@"
        /\ email[j] = "."
        /\ AllNotSpaceAt(email, 1, i - 1)
        /\ AllNotSpaceAt(email, i + 1, j - 1)
        /\ AllNotSpaceAt(email, j + 1, Len(email))

\* ---------------------------------------------------------------- errors
SDKClasses ==
    {"KonnectSDKError", "AuthenticationError", "PaymentNotFoundError", "ValidationError"}
\* Classes that extend Error; "NonError" is a thrown value that is no Error.
ErrorClasses == SDKClasses \cup {"TypeError", "SyntaxError", "AbortError", "Error"}

\* new KonnectSDKError(message, statusCode, code, details)
KonnectSDKError(message, statusCode, code, details) ==
    [cls |-> "KonnectSDKError", message |-> message, statusCode |-> statusCode,
     code |-> code, details |-> details]
\* new PaymentNotFoundError(paymentId)
PaymentNotFoundError(paymentId) ==
    [cls |-> "PaymentNotFoundError",
     message |-> <<"Payment with ID ", paymentId, " not found">>,
     statusCode |-> Some(404), code |-> Some("PAYMENT_NOT_FOUND"),
     details |-> Undefined]
\* new AuthenticationError()
AuthenticationError ==
    [cls |-> "AuthenticationError", message |-> Str("Invalid or missing API key"),
     statusCode |-> Some(401), code |-> Some("INVALID_AUTH"), details |-> Undefined]
\* new ValidationError(message, details)
ValidationError(message, details) ==
    [cls |-> "ValidationError", message |-> message, statusCode |-> Some(400),
     code |-> Some("VALIDATION_ERROR"), details |-> details]
\* An error of the runtime or the transport: it has a message and nothing else.
NativeError(cls, message) ==
    [cls |-> cls, message |-> message, statusCode |-> Undefined,
     code |-> Undefined, details |-> Undefined]

\* error instanceof KonnectSDKError
IsSDKError(e) == e.cls \in SDKClasses
\* error instanceof Error
IsError(e) == e.cls \in ErrorClasses

\* KonnectSDKError.toJSON
\* A toJSON that leaves the details out.
toJSON_withoutDetails(e) ==
    [message |-> e.message, statusCode |-> e.statusCode, code |-> e.code,
     details |-> Undefined]

toJSON(e) ==
    [message |-> e.message, statusCode |-> e.statusCode, code |-> e.code,
     details |-> e.details]

\* ------------------------------------------------------------- JSON bodies
\* What response.json() meets: a body that does not parse, the JSON value
\* null, or a JSON object with the fields the code reads.
Unparseable == [kind |-> "unparseable"]
JsonNull == [kind |-> "null"]
Obj(message, code, paymentId, payment) ==
    [kind |-> "object", message |-> message, code |-> code,
     paymentId |-> paymentId, payment |-> payment]
Payment(status, expirationDate) ==
    [status |-> status, expirationDate |-> expirationDate]

\* Bodies a non-2xx response may carry.
ErrorBodies ==
    {Unparseable, JsonNull,
     Obj(Undefined, Undefined, Undefined, Undefined),
     Obj(Some(""), Some("UPSTREAM_CODE"), Undefined, Undefined),
     Obj(Some("upstream message"), Some("UPSTREAM_CODE"), Some("pay_1"), Undefined)}
\* Bodies a 2xx response may carry.
OkBodies ==
    {Unparseable, JsonNull,
     Obj(Undefined, Undefined, Undefined, Undefined),
     Obj(Undefined, Undefined, Undefined, Some(Payment("completed", "past"))),
     Obj(Undefined, Undefined, Undefined, Some(Payment("pending", "future"))),
     Obj(Undefined, Undefined, Undefined, Some(Payment("pending", "invalid")))}

\* A response as fetch resolves with it: the status line. HTTP/2 responses have
\* an empty statusText.
Response(status, statusText) == [status |-> status, statusText |-> statusText]
Responses ==
    {Response(200, "OK"), Response(400, "Bad Request"), Response(401, "Unauthorized"),
     Response(403, ""), Response(404, "Not Found"), Response(429, ""),
     Response(500, "Internal Server Error")}
\* response.ok
Ok(response) == response.status >= 200 /\ response.status <= 299

\* The value response.json() resolves with, as an optional (null is {}).
Parsed(body) == IF body.kind = "null" THEN Undefined ELSE Some(body)

\* x || y for an optional string x
Truthy(o) == o # Undefined /\ o # Some("")

\* The TypeError of reading a property of null.
NullPropertyError(field) ==
    NativeError("TypeError",
                <<"Cannot read properties of null (reading '", field, "')">>)
\* The SyntaxError response.json() rejects with.
JsonSyntaxError == NativeError("SyntaxError", Str("Unexpected end of JSON input"))
\* What fetch rejects with: a network failure, or the abort of its signal.
NetworkError == NativeError("TypeError", Str("fetch failed"))
AbortError == NativeError("AbortError", Str("This operation was aborted"))

\* handleErrorResponse: the error it throws for a response and its body.
handleErrorResponse(response, body) ==
    LET errorData == IF body.kind = "unparseable"
                     THEN Obj(Some(response.statusText), Undefined, Undefined, Undefined)
                     ELSE body
        data == errorData
    IN  IF response.status = 401 THEN AuthenticationError
        ELSE IF response.status = 404 THEN
            IF data.kind = "null" THEN NullPropertyError("paymentId")
            ELSE PaymentNotFoundError(
                    IF Truthy(data.paymentId) THEN Val(data.paymentId) ELSE "unknown")
        ELSE IF response.status = 400 THEN
            IF data.kind = "null" THEN NullPropertyError("message")
            ELSE ValidationError(
                    IF Truthy(data.message) THEN Str(Val(data.message))
                    ELSE Str("Validation failed"),
                    Some(data))
        ELSE
            IF data.kind = "null" THEN NullPropertyError("message")
            ELSE KonnectSDKError(
                    IF Truthy(data.message) THEN Str(Val(data.message))
                    ELSE <<"HTTP ", ToString(response.status), ": ", response.statusText>>,
                    Some(response.status),
                    data.code,
                    Some(data))

\* ------------------------------------------------------------ outcomes
\* How an asynchronous function ends: it returns a value (an optional, {} is
\* null) or throws.
Returned(v) == [tag |-> "returned", value |-> v, error |-> Undefined]
Threw(e) == [tag |-> "threw", value |-> Undefined, error |-> Some(e)]

\* An UNKNOWN_ERROR whose message is always the literal.
UnknownError_literalMessage(e) ==
    [message |-> Str("Unknown error"),
     statusCode |-> Undefined, code |-> Some("UNKNOWN_ERROR"), details |-> Undefined]

\* The error object wrapResponse builds for a failure that is no KonnectSDKError.
UnknownError(e) ==
    [message |-> IF IsError(e) THEN e.message ELSE Str("Unknown error"),
     statusCode |-> Undefined, code |-> Some("UNKNOWN_ERROR"), details |-> Undefined]

\* wrapResponse with a catch block that handles classified errors only and
\* rethrows the rest.
wrapResponse_rethrowsUnclassified(out) ==
    IF out.tag = "returned"
    THEN Returned([data |-> out.value, error |-> Undefined])
    ELSE IF IsSDKError(Val(out.error))
    THEN Returned([data |-> Undefined, error |-> Some(toJSON(Val(out.error)))])
    ELSE out

\* wrapResponse, given how fn() ended.
wrapResponse(out) ==
    IF out.tag = "returned"
    THEN Returned([data |-> out.value, error |-> Undefined])
    ELSE LET error == Val(out.error)
         IN  IF IsSDKError(error)
             THEN Returned([data |-> Undefined, error |-> Some(toJSON(error))])
             ELSE Returned([data |-> Undefined, error |-> Some(UnknownError(error))])

\* ------------------------------------------------------ client configuration
\* The base URLs, in fragments.
BASE_URLS == [sandbox |-> <<"https://api.", "sandbox", ".konnect.network/api/v2">>,
              production |-> <<"https://api.", "konnect.network/api/v2">>]

\* PaymentDefaults, with two of its (uniformly treated) fields.
Defaults(receiverWalletId, theme) ==
    [receiverWalletId |-> receiverWalletId, theme |-> theme]
NoDefaults == Defaults(Undefined, Undefined)

\* KonnectConfig as the caller writes it.
Config(apiKey, environment, timeout, retryAttempts, defaults) ==
    [apiKey |-> apiKey, environment |-> environment, timeout |-> timeout,
     retryAttempts |-> retryAttempts, defaults |-> defaults]

\* A validateConfig that checks the API key only.
validateConfig_keyOnly(config) ==
    IF config.apiKey = Undefined \/ Val(config.apiKey) = <<>>
       \/ Trim(Val(config.apiKey)) = <<>>
    THEN Some(ValidationError(Str("API key is required"), Undefined))
    ELSE Undefined

\* validateConfig: the error it throws, if any.
validateConfig(config) ==
    IF config.apiKey = Undefined \/ Val(config.apiKey) = <<>>
       \/ Trim(Val(config.apiKey)) = <<>>
    THEN Some(ValidationError(Str("API key is required"), Undefined))
    ELSE IF config.timeout # Undefined /\ Val(config.timeout) # 0
            /\ Val(config.timeout) < 0
    THEN Some(ValidationError(Str("Timeout must be a positive number"), Undefined))
    ELSE IF config.retryAttempts # Undefined /\ Val(config.retryAttempts) # 0
            /\ Val(config.retryAttempts) < 0
    THEN Some(ValidationError(Str("Retry attempts must be a positive number"), Undefined))
    ELSE Undefined

\* x || d for an optional number x
OrNumber(o, d) == IF o = Undefined \/ Val(o) = 0 THEN d ELSE Val(o)

\* The fields the constructor stores.
Constructor(config) ==
    [apiKey |-> Val(config.apiKey),
     baseUrl |-> BASE_URLS[IF config.environment = Undefined THEN "sandbox"
                           ELSE Val(config.environment)],
     timeout |-> OrNumber(config.timeout, DEFAULT_TIMEOUT),
     retryAttempts |-> OrNumber(config.retryAttempts, Whole(DEFAULT_RETRY_ATTEMPTS)),
     defaults |-> IF config.defaults = Undefined THEN NoDefaults
                  ELSE Val(config.defaults)]

\* A getEnvironment that looks for "production" in the base URL.
getEnvironment_byProduction(c) ==
    IF Contains(c.baseUrl, "production") THEN "production" ELSE "sandbox"

\* getEnvironment: this.baseUrl.includes("sandbox") ? "sandbox" : "production"
getEnvironment(c) ==
    IF Contains(c.baseUrl, "sandbox") THEN "sandbox" ELSE "production"

\* ------------------------------------------------------------- requests
DefaultableFields == {"receiverWalletId", "theme"}
\* InitPaymentRequest: keys are the properties the object has (a property may
\* be present and undefined), the other fields their values.
Request(keys, receiverWalletId, amount, email, theme) ==
    [keys |-> keys, receiverWalletId |-> receiverWalletId, amount |-> amount,
     email |-> email, theme |-> theme]

\* mergeWithDefaults: the defaults first, then every property of the request.
mergeWithDefaults(defaults, request) ==
    [keys |-> request.keys \cup DefaultableFields,
     receiverWalletId |-> IF "receiverWalletId" \in request.keys
                          THEN request.receiverWalletId
                          ELSE defaults.receiverWalletId,
     amount |-> request.amount,
     email |-> request.email,
     theme |-> IF "theme" \in request.keys THEN request.theme ELSE defaults.theme]

\* A validateInitPaymentRequest that does not look at the amount.
validateInitPaymentRequest_anyAmount(request) ==
    IF ~Truthy(request.receiverWalletId)
    THEN Some(ValidationError(
            Str("receiverWalletId is required (either in request or defaults)"),
            Undefined))
    ELSE IF request.email # Undefined /\ Val(request.email) # <<>>
            /\ ~isValidEmail(Val(request.email))
    THEN Some(ValidationError(Str("Invalid email format"), Undefined))
    ELSE Undefined

\* validateInitPaymentRequest: the error it throws, if any.
validateInitPaymentRequest(request) ==
    IF ~Truthy(request.receiverWalletId)
    THEN Some(ValidationError(
            Str("receiverWalletId is required (either in request or defaults)"),
            Undefined))
    ELSE IF request.amount = Undefined \/ Val(request.amount) = 0
            \/ Val(request.amount) <= 0
    THEN Some(ValidationError(Str("amount must be a positive number"), Undefined))
    ELSE IF request.email # Undefined /\ Val(request.email) # <<>>
            /\ ~isValidEmail(Val(request.email))
    THEN Some(ValidationError(Str("Invalid email format"), Undefined))
    ELSE Undefined

\* A validatePaymentId that does not trim.
validatePaymentId_untrimmed(paymentId) ==
    IF paymentId = <<>>
    THEN Some(ValidationError(Str("paymentId is required"), Undefined))
    ELSE Undefined

\* validatePaymentId: the error it throws, if any.
validatePaymentId(paymentId) ==
    IF paymentId = <<>> \/ Trim(paymentId) = <<>>
    THEN Some(ValidationError(Str("paymentId is required"), Undefined))
    ELSE Undefined

\* A check of getPaymentDetailsOrThrow that accepts a paymentId of spaces.
requirePaymentId_emptyOnly(paymentId) ==
    IF paymentId = <<>>
    THEN Some(ValidationError(Str("paymentId is required"), Undefined))
    ELSE Undefined

\* The check getPaymentDetailsOrThrow makes itself:
\* if (!paymentId || paymentId.trim() === "") throw new ValidationError(...)
requirePaymentId(paymentId) ==
    IF paymentId = <<>> \/ Trim(paymentId) = <<>>
    THEN Some(ValidationError(Str("paymentId is required"), Undefined))
    ELSE Undefined

\* JSON.stringify(mergedRequest): the properties that are not undefined.
Stringify(request) ==
    [receiverWalletId |-> request.receiverWalletId, amount |-> request.amount,
     email |-> request.email, theme |-> request.theme]

\* The HTTP request KonnectSDK.request hands to makeRequest.
HttpRequest(c, endpoint, method, body) ==
    [url |-> c.baseUrl \o endpoint, method |-> method,
     apiKey |-> Some(c.apiKey), body |-> body]

\* ------------------------------------------------------------------ state
VARIABLES
    config,      \* the constructor's argument, until the constructor returns
    client,      \* the KonnectSDK instance, once constructed
    ctorError,   \* what the constructor threw, if it threw
    call,        \* the operation invoked on the client and its argument
    mr,          \* the activation of makeRequest (see NewActivation)
    now,         \* milliseconds since the operation was invoked
    timersArmed, \* how many deadline timers the call has armed
    fnOut,       \* how the operation's body ended
    result,      \* how the public operation ended, as its caller sees it
    stored,      \* the fields of the instance as they were when the constructor returned
    calls,       \* the calls running concurrently on the client, by slot (see Slot)
    handle       \* the object the last getDefaults call returned, and its fate

vars == <<config, client, ctorError, call, mr, now, timersArmed, fnOut, result,
          stored, calls, handle>>
\* What one call followed on its own does with a client.
callVars == <<call, mr, timersArmed, fnOut, result>>
\* What several calls on one client add.
sessionVars == <<calls, handle>>

WrappedOps == {"initPayment", "getPaymentDetails", "isPaymentCompleted", "isPaymentExpired"}
LegacyOps == {"initPaymentOrThrow", "getPaymentDetailsOrThrow"}
\* The exported utilities, called directly.
UtilityOps == {"makeRequest", "wrapResponse", "handleErrorResponse"}
Ops == WrappedOps \cup LegacyOps \cup UtilityOps
\* The operations whose result is a {data, error} envelope.
EnvelopedOps == WrappedOps \cup {"wrapResponse"}

\* ------------------------------------------------------------ makeRequest
\* The locals of one makeRequest call: where it is suspended (pc), the loop
\* counter, lastError, whether timeoutId is still pending, whether the
\* controller's signal is aborted, the response in hand, when the current sleep
\* ends, how the call exited, a log of what it did (events: the fetch calls
\* and the sleeps, in order), the statuses of the responses it received and
\* whether a fetch was rejected.
NewActivation(request, cfg) ==
    [pc |-> "start", request |-> Some(request), timeout |-> cfg.timeout,
     retryAttempts |-> cfg.retryAttempts, attempt |-> 0, lastError |-> Undefined,
     timerPending |-> TRUE, aborted |-> FALSE, response |-> Undefined,
     sleepEnd |-> 0, exit |-> Undefined, events |-> <<>>, statuses |-> {},
     rejected |-> FALSE]
\* Before any call.
NoActivation ==
    [pc |-> "idle", request |-> Undefined, timeout |-> 0, retryAttempts |-> 0,
     attempt |-> 0, lastError |-> Undefined, timerPending |-> FALSE,
     aborted |-> FALSE, response |-> Undefined, sleepEnd |-> 0,
     exit |-> Undefined, events |-> <<>>, statuses |-> {}, rejected |-> FALSE]

CallEvent == [type |-> "call", ms |-> 0]
SleepEvent(ms) == [type |-> "sleep", ms |-> ms]

\* lastError?.message || 'Request failed after retries'
\* An exhaustion message that ignores lastError.
ExhaustedMessage_fallbackOnly(lastError) == Str("Request failed after retries")

ExhaustedMessage(lastError) ==
    IF lastError = Undefined \/ IsEmptyMessage(Val(lastError).message)
    THEN Str("Request failed after retries")
    ELSE Val(lastError).message

\* An exit of the loop that rethrows lastError when it is a classified error.
ExitLoop_rethrowsClassified(m) ==
    [m EXCEPT !.pc = "done", !.timerPending = FALSE,
              !.exit = IF m.lastError # Undefined /\ IsSDKError(Val(m.lastError))
                       THEN Some(Threw(Val(m.lastError)))
                       ELSE Some(Threw(KonnectSDKError(
                                ExhaustedMessage(m.lastError), Undefined,
                                Some("REQUEST_FAILED"), Undefined)))]

\* An exit of the loop that throws without clearTimeout(timeoutId).
ExitLoop_keepsTimer(m) ==
    [m EXCEPT !.pc = "done",
              !.exit = Some(Threw(KonnectSDKError(ExhaustedMessage(m.lastError),
                                                  Undefined, Some("REQUEST_FAILED"),
                                                  Undefined)))]

\* After the loop: clearTimeout(timeoutId); throw new KonnectSDKError(...).
ExitLoop(m) ==
    [m EXCEPT !.pc = "done", !.timerPending = FALSE,
              !.exit = Some(Threw(KonnectSDKError(ExhaustedMessage(m.lastError),
                                                  Undefined, Some("REQUEST_FAILED"),
                                                  Undefined)))]

\* await fetch(url, {...options, signal})
IssueFetch(m) == [m EXCEPT !.pc = "fetch", !.events = Append(@, CallEvent)]

\* A loop that tests its condition after the first attempt only (do ... while).
LoopHead_atLeastOnce(m) ==
    IF m.attempt = 0 \/ Whole(m.attempt) < m.retryAttempts
    THEN IssueFetch(m) ELSE ExitLoop(m)

\* The loop condition attempt < config.retryAttempts.
LoopHead(m) ==
    IF Whole(m.attempt) < m.retryAttempts THEN IssueFetch(m) ELSE ExitLoop(m)

\* A terminal check that takes an error without a status code for terminal.
IsTerminal_withoutStatus(e) ==
    \/ e.statusCode = Undefined
    \/ /\ Val(e.statusCode) >= 400 /\ Val(e.statusCode) < 500
       /\ Val(e.statusCode) # 429

\* error.statusCode >= 400 && error.statusCode < 500 && error.statusCode !== 429
IsTerminal(e) ==
    /\ IsSDKError(e)
    /\ e.statusCode # Undefined /\ Val(e.statusCode) # 0
    /\ Val(e.statusCode) >= 400 /\ Val(e.statusCode) < 500
    /\ Val(e.statusCode) # 429

\* 2 ** attempt * 1000
Backoff(attempt) == (2 ^ attempt) * BACKOFF_BASE_MS

\* A catch block that rethrows the AbortError of an aborted fetch.
Catch_rethrowsAbort(m, error, t) ==
    LET m1 == [m EXCEPT !.lastError = Some(error), !.response = Undefined]
    IN  IF IsTerminal(error) \/ error.cls = "AbortError"
        THEN [m1 EXCEPT !.pc = "done", !.timerPending = FALSE,
                        !.exit = Some(Threw(error))]
        ELSE IF Whole(m.attempt) = m.retryAttempts - Whole(1)
        THEN ExitLoop(m1)
        ELSE [m1 EXCEPT !.pc = "sleep", !.sleepEnd = t + Backoff(m.attempt),
                        !.events = Append(@, SleepEvent(Backoff(m.attempt)))]

\* A catch block without the break on the last attempt.
Catch_sleepsOnLastAttempt(m, error, t) ==
    LET m1 == [m EXCEPT !.lastError = Some(error), !.response = Undefined]
    IN  IF IsTerminal(error)
        THEN [m1 EXCEPT !.pc = "done", !.exit = Some(Threw(error))]
        ELSE [m1 EXCEPT !.pc = "sleep", !.sleepEnd = t + Backoff(m.attempt),
                        !.events = Append(@, SleepEvent(Backoff(m.attempt)))]

\* The catch block of the loop, entered with error at time t.
Catch(m, error, t) ==
    LET m1 == [m EXCEPT !.lastError = Some(error), !.response = Undefined]
    IN  IF IsTerminal(error)
        THEN [m1 EXCEPT !.pc = "done", !.exit = Some(Threw(error))]
        ELSE IF Whole(m.attempt) = m.retryAttempts - Whole(1)
        THEN ExitLoop(m1)
        ELSE [m1 EXCEPT !.pc = "sleep", !.sleepEnd = t + Backoff(m.attempt),
                        !.events = Append(@, SleepEvent(Backoff(m.attempt)))]

\* makeRequest up to its first await.
Start(request, cfg) == LoopHead(NewActivation(request, cfg))

\* fetch resolved: clearTimeout(timeoutId), then the body is awaited
\* (response.json(), directly or inside handleErrorResponse).
OnResponse(m, response) ==
    [m EXCEPT !.pc = "body", !.timerPending = FALSE, !.response = Some(response),
              !.statuses = @ \cup {response.status}]

\* response.json() settled with body.
OnBody(m, body, t) ==
    LET response == Val(m.response)
    IN  IF Ok(response)
        THEN IF body.kind = "unparseable"
             THEN Catch(m, JsonSyntaxError, t)
             ELSE [m EXCEPT !.pc = "done", !.response = Undefined,
                            !.exit = Some(Returned(Parsed(body)))]
        ELSE Catch(m, handleErrorResponse(response, body), t)

\* fetch rejected.
OnFetchRejected(m, error, t) ==
    Catch([m EXCEPT !.rejected = TRUE], error, t)

\* The deadline timer's callback: controller.abort().
OnDeadline(m) == [m EXCEPT !.timerPending = FALSE, !.aborted = TRUE]

\* The sleep resolved: attempt++ and the loop condition.
OnSleepDone(m) == LoopHead([m EXCEPT !.attempt = @ + 1])

\* ------------------------------------------------------ public operations
\* What the operation does with the value makeRequest returned.
Continue(op, out) ==
    IF out.tag = "threw" \/ op \notin {"isPaymentCompleted", "isPaymentExpired"}
    THEN out
    ELSE IF out.value = Undefined
    THEN Threw(NullPropertyError("payment"))
    ELSE IF Val(out.value).payment = Undefined
    THEN Threw(NativeError("TypeError",
            <<"Cannot read properties of undefined (reading '",
              IF op = "isPaymentCompleted" THEN "status" ELSE "expirationDate", "')">>))
    ELSE IF op = "isPaymentCompleted"
    THEN Returned(Some(Val(Val(out.value).payment).status = "completed"))
    ELSE Returned(Some(Val(Val(out.value).payment).expirationDate = "past"))

\* What the caller of the public operation gets.
Deliver(op, out) == IF op \in EnvelopedOps THEN wrapResponse(out) ELSE out

\* ----------------------------------------------------------------- inputs
ApiKeys == {Undefined, Some(<<>>), Some(<<" ", " ">>), Some(<<"k", "1">>)}
Environments == {Undefined, Some("sandbox"), Some("production")}
TimeoutInputs ==
    {Undefined, Some(0), Some(0 - 1000)} \cup {Some(k * 1000) : k \in 1..MaxTimeout}
\* Every whole count up to MaxRetry, and the halves between up to MaxRetry - 1.
RetryInputs ==
    {Undefined, Some(0 - Whole(1))} \cup {Some(Whole(n)) : n \in 0..MaxRetry}
    \cup {Some(Whole(n) + 1) : n \in 0..(MaxRetry - 2)}
DefaultsInputs ==
    {Undefined, Some(Defaults(Some("default-wallet"), Some("dark"))),
     Some(Defaults(Undefined, Some("dark")))}

PositiveTimeouts == {Some(k * 1000) : k \in 1..MaxTimeout}
WalletDefaults == Some(Defaults(Some("default-wallet"), Some("dark")))
\* The configurations tried: every retry count with every positive timeout,
\* every other timeout with one attempt, and every client shape with one
\* timeout and one attempt.
Configs ==
    {Config(Some(<<"k", "1">>), Undefined, t, r, WalletDefaults) :
        t \in PositiveTimeouts, r \in RetryInputs}
    \cup
    {Config(Some(<<"k", "1">>), Undefined, t, Some(Whole(1)), WalletDefaults) :
        t \in TimeoutInputs}
    \cup
    {Config(k, e, Some(1000), Some(Whole(1)), d) :
        k \in ApiKeys, e \in Environments, d \in DefaultsInputs}
    \cup
    {Config(k, Undefined, Some(0 - 1000), Some(0 - Whole(1)), Undefined) :
        k \in ApiKeys}

GoodEmail == <<"a", "@", "b", ".", "c">>
Requests ==
    {Request({"amount"}, Undefined, Some(10000), Undefined, Undefined),
     Request({"amount", "receiverWalletId", "theme", "email"}, Some("request-wallet"),
             Some(10000), Some(GoodEmail), Some("light")),
     Request({"amount", "receiverWalletId"}, Undefined, Some(10000),
             Undefined, Undefined),
     Request({"amount"}, Undefined, Some(0 - 100), Undefined, Undefined),
     Request({"amount"}, Undefined, Some(0), Undefined, Undefined),
     Request({}, Undefined, Undefined, Undefined, Undefined),
     Request({"amount", "email"}, Undefined, Some(10000),
             Some(<<"a", "@", "b">>), Undefined),
     Request({"amount", "email"}, Undefined, Some(10000),
             Some(<<"a", " ", "@", "b", ".", "c">>), Undefined)}
PaymentIds == {<<>>, <<" ">>, <<"p", "1">>}

\* makeRequest called directly, with a configuration no client can hold.
DirectConfigs == {[timeout |-> 1000, retryAttempts |-> 0]}
DirectRequest ==
    [url |-> <<"https://example.test/">>, method |-> "GET", apiKey |-> Undefined,
     body |-> Undefined]

\* How the function handed to wrapResponse directly may end: with a value, with
\* null, with a classified error, with another Error (its message empty or
\* not), with a thrown value that is no Error.
FnOutcomes ==
    {Returned(Some(Obj(Undefined, Undefined, Undefined, Undefined))),
     Returned(Undefined),
     Threw(ValidationError(Str("amount must be a positive number"),
                           Some(Obj(Undefined, Undefined, Undefined, Undefined)))),
     Threw(KonnectSDKError(Str("custom"), Undefined, Undefined, Undefined)),
     Threw(NativeError("Error", Str("boom"))),
     Threw(NativeError("Error", Str(""))),
     Threw(NativeError("NonError", <<>>))}

\* The bodies handleErrorResponse is called with directly: those above, and an
\* object with a message and nothing else.
ClassifierBodies ==
    ErrorBodies \cup {Obj(Some("upstream message"), Undefined, Undefined, Undefined)}

\* ------------------------------------------------------------------ slots
\* A call running on the client next to others: the operation and its
\* argument, when it was invoked, whether an object returned by getDefaults
\* had been assigned to by then, its own makeRequest activation, and how it
\* ended as its caller sees it.
Slots == 1..MaxCalls
Slot(op, request, paymentId, started, afterAssign, m, out) ==
    [op |-> op, request |-> request, paymentId |-> paymentId, started |-> started,
     afterAssign |-> afterAssign, mr |-> m, result |-> out]
FreeSlot == Slot("none", Undefined, Undefined, 0, FALSE, NoActivation, Undefined)
NoCalls == [i \in Slots |-> FreeSlot]

\* ---------------------------------------------------------------- actions
Init ==
    /\ config \in {Some(c) : c \in Configs}
    /\ client = Undefined
    /\ ctorError = Undefined
    /\ call = Undefined
    /\ mr = NoActivation
    /\ now = 0
    /\ timersArmed = 0
    /\ fnOut = Undefined
    /\ result = Undefined
    /\ stored = Undefined
    /\ calls = NoCalls
    /\ handle = Undefined

\* new KonnectSDK(config)
Construct ==
    /\ config # Undefined
    /\ LET error == validateConfig(Val(config))
       IN  IF error # Undefined
           THEN ctorError' = error /\ client' = client
           ELSE client' = Some(Constructor(Val(config))) /\ ctorError' = ctorError
    /\ stored' = client'
    /\ config' = Undefined
    /\ UNCHANGED <<now, callVars, sessionVars>>

\* The operation's body ended with out: the public operation ends.
Settled(op, out) ==
    /\ fnOut' = Some(Continue(op, out))
    /\ result' = Some(Deliver(op, Continue(op, out)))

\* makeRequest moved to m: if it exited, so does the operation.
Moved(op, m) ==
    /\ mr' = m
    /\ IF m.pc = "done" THEN Settled(op, Val(m.exit))
       ELSE UNCHANGED <<fnOut, result>>

\* The operation failed validation, or called this.request.
Begin(op, error, request, cfg) ==
    IF error # Undefined
    THEN /\ Settled(op, Threw(Val(error)))
         /\ UNCHANGED <<mr, timersArmed>>
    ELSE /\ Moved(op, Start(request, cfg))
         /\ timersArmed' = timersArmed + 1

\* An operation invoked with a request or a paymentId, or with neither.
Invocation(op, request, paymentId) ==
    [op |-> op, request |-> request, paymentId |-> paymentId,
     response |-> Undefined, body |-> Undefined]

ClientConfig(c) == [timeout |-> c.timeout, retryAttempts |-> c.retryAttempts]

\* initPayment(request) and initPaymentOrThrow(request)
InitPayment(op, request) ==
    /\ client # Undefined /\ call = Undefined
    /\ call' = Some(Invocation(op, Some(request), Undefined))
    /\ LET c == Val(client)
           mergedRequest == mergeWithDefaults(c.defaults, request)
       IN  Begin(op, validateInitPaymentRequest(mergedRequest),
                 HttpRequest(c, <<"/payments/init-payment">>, "POST",
                             Some(Stringify(mergedRequest))),
                 ClientConfig(c))
    /\ UNCHANGED <<config, client, ctorError, now, stored, sessionVars>>

\* getPaymentDetails(paymentId) and getPaymentDetailsOrThrow(paymentId)
GetPaymentDetails(op, paymentId) ==
    /\ client # Undefined /\ call = Undefined
    /\ call' = Some(Invocation(op, Undefined, Some(paymentId)))
    /\ LET c == Val(client)
       IN  Begin(op,
                 IF op = "getPaymentDetailsOrThrow" THEN requirePaymentId(paymentId)
                 ELSE validatePaymentId(paymentId),
                 HttpRequest(c, <<"/payments/", paymentId>>, "GET", Undefined),
                 ClientConfig(c))
    /\ UNCHANGED <<config, client, ctorError, now, stored, sessionVars>>

\* isPaymentCompleted(paymentId) and isPaymentExpired(paymentId)
IsPayment(op, paymentId) ==
    /\ client # Undefined /\ call = Undefined
    /\ call' = Some(Invocation(op, Undefined, Some(paymentId)))
    /\ LET c == Val(client)
       IN  Begin(op, Undefined,
                 HttpRequest(c, <<"/payments/", paymentId>>, "GET", Undefined),
                 ClientConfig(c))
    /\ UNCHANGED <<config, client, ctorError, now, stored, sessionVars>>

\* makeRequest(url, options, config) called directly
MakeRequest(cfg) ==
    /\ client # Undefined /\ call = Undefined
    /\ call' = Some(Invocation("makeRequest", Undefined, Undefined))
    /\ Begin("makeRequest", Undefined, DirectRequest, cfg)
    /\ UNCHANGED <<config, client, ctorError, now, stored, sessionVars>>

\* wrapResponse(fn) called directly, fn ending with out
WrapResponse(out) ==
    /\ client # Undefined /\ call = Undefined
    /\ call' = Some(Invocation("wrapResponse", Undefined, Undefined))
    /\ fnOut' = Some(out)
    /\ result' = Some(Deliver("wrapResponse", out))
    /\ UNCHANGED <<config, client, ctorError, mr, now, timersArmed, stored, sessionVars>>

\* handleErrorResponse(response) called directly, response.json() settling
\* with body
HandleErrorResponse(response, body) ==
    /\ client # Undefined /\ call = Undefined
    /\ ~Ok(response)
    /\ call' = Some([Invocation("handleErrorResponse", Undefined, Undefined)
                        EXCEPT !.response = Some(response), !.body = Some(body)])
    /\ Settled("handleErrorResponse", Threw(handleErrorResponse(response, body)))
    /\ UNCHANGED <<config, client, ctorError, mr, now, timersArmed, stored, sessionVars>>

\* A step of the running makeRequest call to activation m.
Step(m) ==
    /\ Moved(Val(call).op, m)
    /\ UNCHANGED <<config, client, ctorError, call, now, timersArmed, stored,
                   sessionVars>>

\* fetch resolves with a response.
FetchResponds(response) ==
    /\ mr.pc = "fetch" /\ ~mr.aborted
    /\ Step(OnResponse(mr, response))

\* fetch rejects with a network failure.
FetchFails ==
    /\ mr.pc = "fetch" /\ ~mr.aborted
    /\ Step(OnFetchRejected(mr, NetworkError, now))

\* fetch rejects because its signal is aborted.
FetchAborts ==
    /\ mr.pc = "fetch" /\ mr.aborted
    /\ Step(OnFetchRejected(mr, AbortError, now))

\* response.json() settles.
BodyArrives(body) ==
    /\ mr.pc = "body"
    /\ body \in (IF Ok(Val(mr.response)) THEN OkBodies ELSE ErrorBodies)
    /\ Step(OnBody(mr, body, now))

\* The deadline timer fires.
DeadlineFires ==
    /\ mr.pc # "idle" /\ mr.timerPending /\ now >= mr.timeout
    /\ Step(OnDeadline(mr))

\* The backoff sleep resolves.
SleepDone ==
    /\ mr.pc = "sleep" /\ now >= mr.sleepEnd
    /\ Step(OnSleepDone(mr))

\* Something is due now: a timer that has expired, or the rejection of an
\* aborted fetch. Time does not advance before it has happened.
Due ==
    \/ mr.timerPending /\ now >= mr.timeout
    \/ mr.pc = "fetch" /\ mr.aborted
    \/ mr.pc = "sleep" /\ now >= mr.sleepEnd

\* Time passes while the call is suspended. Once the deadline is behind and no
\* timer is pending, more elapsed time changes nothing the code can observe and
\* no comparison of now with the timeout, so only a sleep advances the clock.
Tick ==
    /\ mr.pc \in {"fetch", "body", "sleep"}
    /\ ~Due
    /\ mr.pc = "sleep" \/ mr.timerPending \/ now <= mr.timeout
    /\ now < MaxClock * 1000
    /\ now' = now + 1000
    /\ UNCHANGED <<config, client, ctorError, callVars, stored, sessionVars>>

Next ==
    \/ Construct
    \/ \E op \in {"initPayment", "initPaymentOrThrow"} : \E request \in Requests :
          InitPayment(op, request)
    \/ \E op \in {"getPaymentDetails", "getPaymentDetailsOrThrow"} :
          \E paymentId \in PaymentIds : GetPaymentDetails(op, paymentId)
    \/ \E op \in {"isPaymentCompleted", "isPaymentExpired"} :
          \E paymentId \in PaymentIds : IsPayment(op, paymentId)
    \/ \E cfg \in DirectConfigs : MakeRequest(cfg)
    \/ \E out \in FnOutcomes : WrapResponse(out)
    \/ \E response \in Responses : \E body \in ClassifierBodies :
          HandleErrorResponse(response, body)
    \/ \E response \in Responses : FetchResponds(response)
    \/ FetchFails
    \/ FetchAborts
    \/ \E body \in OkBodies \cup ErrorBodies : BodyArrives(body)
    \/ DeadlineFires
    \/ SleepDone
    \/ Tick

Spec == Init /\ [][Next]_vars

\* ---------------------------------------------------- fair scheduling
\* The configurations of the calls followed to their end: every positive
\* timeout with one and with two attempts.
LiveConfigs ==
    {Config(Some(<<"k", "1">>), Undefined, t, r, WalletDefaults) :
        t \in PositiveTimeouts, r \in {Some(Whole(1)), Some(Whole(2))}}

LiveInit ==
    /\ config \in {Some(c) : c \in LiveConfigs}
    /\ client = Undefined
    /\ ctorError = Undefined
    /\ call = Undefined
    /\ mr = NoActivation
    /\ now = 0
    /\ timersArmed = 0
    /\ fnOut = Undefined
    /\ result = Undefined
    /\ stored = Undefined
    /\ calls = NoCalls
    /\ handle = Undefined

\* What the runtime guarantees: time passes, a timer that has expired fires
\* (the deadline, the sleep), a fetch whose signal is aborted rejects, and the
\* body of a response that has arrived settles. Nothing makes the transport
\* answer a fetch.
Fairness ==
    /\ WF_vars(Tick)
    /\ WF_vars(DeadlineFires)
    /\ WF_vars(SleepDone)
    /\ WF_vars(FetchAborts)
    /\ WF_vars(\E body \in OkBodies \cup ErrorBodies : BodyArrives(body))

Live == LiveInit /\ [][Next]_vars /\ Fairness

\* ------------------------------------------------- several calls, one client
\* The configurations, arguments and transport answers of the calls that run
\* next to each other.
SessionConfigs ==
    {Config(Some(<<"k", "1">>), Undefined, Some(1000), Some(Whole(2)), WalletDefaults)}
SessionRequests ==
    {Request({"amount"}, Undefined, Some(10000), Undefined, Undefined),
     Request({"amount", "receiverWalletId"}, Some("request-wallet"), Some(10000),
             Undefined, Undefined)}
SessionPaymentIds == {<<"p", "1">>}
SessionResponses == {Response(200, "OK"), Response(500, "Internal Server Error")}
SessionBodies ==
    {Obj(Undefined, Undefined, Undefined, Some(Payment("completed", "past")))}
\* The fields of an object getDefaults returned that are assigned to, and the
\* values assigned.
AssignedFields == {"receiverWalletId"}
AssignedValues == {Some("assigned")}

\* A mergeWithDefaults that writes the request's fields into this.defaults.
thisDefaultsAfterMerge_assigned(defaults, request) ==
    [f \in DOMAIN defaults |-> IF f \in request.keys THEN request[f] ELSE defaults[f]]

\* this.defaults once mergeWithDefaults has returned: it is only read.
thisDefaultsAfterMerge(defaults, request) == defaults

\* A getDefaults that returns this.defaults itself.
getDefaults_sameObject(c) == [object |-> "this.defaults", fields |-> c.defaults]

\* getDefaults: { ...this.defaults }, a new object with the same fields.
getDefaults(c) == [object |-> "copy", fields |-> c.defaults]

\* One AbortController for all calls.
Controller_shared(i) == 1

\* The AbortController of the call in slot i: makeRequest creates its own.
Controller(i) == i

\* How the call ended for its caller, once its makeRequest has exited.
Outcome(op, m) ==
    IF m.pc = "done" THEN Some(Deliver(op, Continue(op, Val(m.exit)))) ELSE Undefined
\* The lowest free slot.
IsNextFree(i) == calls[i] = FreeSlot /\ \A j \in 1..(i - 1) : calls[j] # FreeSlot
\* An object getDefaults returned has been assigned to.
Assigned == handle # Undefined /\ (Val(handle).assigned \/ Val(handle).again)
InFlight(i) == calls[i].mr.pc \in {"fetch", "body", "sleep"}

SessionInit ==
    /\ config \in {Some(c) : c \in SessionConfigs}
    /\ client = Undefined
    /\ ctorError = Undefined
    /\ call = Undefined
    /\ mr = NoActivation
    /\ now = 0
    /\ timersArmed = 0
    /\ fnOut = Undefined
    /\ result = Undefined
    /\ stored = Undefined
    /\ calls = NoCalls
    /\ handle = Undefined

\* The call of an operation that failed validation, or called this.request.
Begun(op, request, paymentId, error, httpRequest) ==
    LET m == IF error # Undefined THEN NoActivation
             ELSE Start(httpRequest, ClientConfig(Val(client)))
        out == IF error # Undefined
               THEN Some(Deliver(op, Continue(op, Threw(Val(error)))))
               ELSE Outcome(op, m)
    IN  Slot(op, request, paymentId, now, Assigned, m, out)

\* The operation invoked in slot i failed validation, or called this.request.
BeginIn(i, op, request, paymentId, error, httpRequest) ==
    calls' = [calls EXCEPT ![i] = Begun(op, request, paymentId, error, httpRequest)]

\* initPayment(request), next to the calls already running
InitPaymentIn(i, request) ==
    /\ client # Undefined /\ IsNextFree(i)
    /\ LET c == Val(client)
           mergedRequest == mergeWithDefaults(c.defaults, request)
       IN  /\ BeginIn(i, "initPayment", Some(request), Undefined,
                      validateInitPaymentRequest(mergedRequest),
                      HttpRequest(c, <<"/payments/init-payment">>, "POST",
                                  Some(Stringify(mergedRequest))))
           /\ client' = Some([c EXCEPT !.defaults = thisDefaultsAfterMerge(@, request)])
    /\ UNCHANGED <<config, ctorError, now, stored, handle, callVars>>

\* getPaymentDetails(paymentId), next to the calls already running
GetPaymentDetailsIn(i, paymentId) ==
    /\ client # Undefined /\ IsNextFree(i)
    /\ BeginIn(i, "getPaymentDetails", Undefined, Some(paymentId),
               validatePaymentId(paymentId),
               HttpRequest(Val(client), <<"/payments/", paymentId>>, "GET", Undefined))
    /\ UNCHANGED <<config, client, ctorError, now, stored, handle, callVars>>

\* A step of the makeRequest call of slot i to activation m.
StepIn(i, m) ==
    /\ calls' = [calls EXCEPT ![i].mr = m, ![i].result = Outcome(calls[i].op, m)]
    /\ UNCHANGED <<config, client, ctorError, now, stored, handle, callVars>>

FetchRespondsIn(i, response) ==
    /\ calls[i].mr.pc = "fetch" /\ ~calls[i].mr.aborted
    /\ StepIn(i, OnResponse(calls[i].mr, response))

FetchAbortsIn(i) ==
    /\ calls[i].mr.pc = "fetch" /\ calls[i].mr.aborted
    /\ StepIn(i, OnFetchRejected(calls[i].mr, AbortError, now))

BodyArrivesIn(i, body) ==
    /\ calls[i].mr.pc = "body"
    /\ StepIn(i, OnBody(calls[i].mr, body, now))

SleepDoneIn(i) ==
    /\ calls[i].mr.pc = "sleep" /\ now >= calls[i].mr.sleepEnd
    /\ StepIn(i, OnSleepDone(calls[i].mr))

\* The deadline of the call in slot i has come.
DeadlineDue(i) ==
    calls[i].mr.timerPending /\ now >= calls[i].started + calls[i].mr.timeout

\* The deadline timer of the call in slot i fires: it aborts that call's
\* controller, and with it every fetch that listens to the controller's signal.
DeadlineFiresIn(i) ==
    /\ DeadlineDue(i)
    /\ calls' = [j \in Slots |->
                    IF j = i THEN [calls[j] EXCEPT !.mr = OnDeadline(@)]
                    ELSE IF Controller(j) = Controller(i) /\ InFlight(j)
                    THEN [calls[j] EXCEPT !.mr.aborted = TRUE]
                    ELSE calls[j]]
    /\ UNCHANGED <<config, client, ctorError, now, stored, handle, callVars>>

\* The caller has taken the result of the call in slot i.
ReturnIn(i) ==
    /\ calls[i].result # Undefined
    /\ calls' = [calls EXCEPT ![i] = FreeSlot]
    /\ UNCHANGED <<config, client, ctorError, now, stored, handle, callVars>>

\* getDefaults()
GetDefaults ==
    /\ client # Undefined
    /\ LET o == getDefaults(Val(client))
       IN  handle' = Some([object |-> o.object, fields |-> o.fields,
                           assigned |-> FALSE, again |-> Assigned])
    /\ UNCHANGED <<config, client, ctorError, now, stored, calls, callVars>>

\* The caller assigns to a field of the object getDefaults returned.
AssignToDefaults(f, v) ==
    /\ handle # Undefined /\ client # Undefined
    /\ Val(handle).fields[f] # v
    /\ handle' = Some([Val(handle) EXCEPT !.fields[f] = v, !.assigned = TRUE])
    /\ client' = IF Val(handle).object = "this.defaults"
                 THEN Some([Val(client) EXCEPT !.defaults[f] = v])
                 ELSE client
    /\ UNCHANGED <<config, ctorError, now, stored, calls, callVars>>

\* Something is due now in some call.
SessionDue ==
    \E i \in Slots :
        \/ DeadlineDue(i)
        \/ calls[i].mr.pc = "fetch" /\ calls[i].mr.aborted
        \/ calls[i].mr.pc = "sleep" /\ now >= calls[i].mr.sleepEnd

\* Time passes while some call is suspended.
SessionTick ==
    /\ \E i \in Slots : InFlight(i)
    /\ ~SessionDue
    /\ now < MaxSessionClock * 1000
    /\ now' = now + 1000
    /\ UNCHANGED <<config, client, ctorError, stored, calls, handle, callVars>>

SessionNext ==
    \/ Construct
    \/ \E i \in Slots : \E request \in SessionRequests : InitPaymentIn(i, request)
    \/ \E i \in Slots : \E paymentId \in SessionPaymentIds :
          GetPaymentDetailsIn(i, paymentId)
    \/ \E i \in Slots : \E response \in SessionResponses : FetchRespondsIn(i, response)
    \/ \E i \in Slots : FetchAbortsIn(i)
    \/ \E i \in Slots : \E body \in SessionBodies : BodyArrivesIn(i, body)
    \/ \E i \in Slots : SleepDoneIn(i)
    \/ \E i \in Slots : DeadlineFiresIn(i)
    \/ \E i \in Slots : ReturnIn(i)
    \/ GetDefaults
    \/ \E f \in AssignedFields : \E v \in AssignedValues : AssignToDefaults(f, v)
    \/ SessionTick

Session == SessionInit /\ [][SessionNext]_vars

\* ------------------------------------- an operation and its throwing twin
\* An enveloped operation (slot 1) and its throwing counterpart (slot 2) are
\* invoked with the same argument at the same time, and the transport treats
\* both alike: every answer, failure and timer event reaches each of the two
\* calls that can take it.
TwinConfigs ==
    {Config(Some(<<"k", "1">>), Undefined, Some(1000), r, d) :
        r \in {Some(Whole(1)), Some(Whole(2))}, d \in {WalletDefaults, Undefined}}
Twins == {1, 2}

TwinInit ==
    /\ config \in {Some(c) : c \in TwinConfigs}
    /\ client = Undefined
    /\ ctorError = Undefined
    /\ call = Undefined
    /\ mr = NoActivation
    /\ now = 0
    /\ timersArmed = 0
    /\ fnOut = Undefined
    /\ result = Undefined
    /\ stored = Undefined
    /\ calls = NoCalls
    /\ handle = Undefined

\* Slot 1 holds enveloped, slot 2 holds throwing.
TwinCalls(enveloped, throwing) ==
    [i \in Slots |-> IF i = 1 THEN enveloped ELSE IF i = 2 THEN throwing ELSE FreeSlot]

\* initPayment(request) and initPaymentOrThrow(request)
TwinInitPayment(request) ==
    /\ client # Undefined /\ calls = NoCalls
    /\ LET c == Val(client)
           mergedRequest == mergeWithDefaults(c.defaults, request)
           error == validateInitPaymentRequest(mergedRequest)
           httpRequest == HttpRequest(c, <<"/payments/init-payment">>, "POST",
                                      Some(Stringify(mergedRequest)))
       IN  calls' = TwinCalls(
                Begun("initPayment", Some(request), Undefined, error, httpRequest),
                Begun("initPaymentOrThrow", Some(request), Undefined, error,
                      httpRequest))
    /\ UNCHANGED <<config, client, ctorError, now, stored, handle, callVars>>

\* getPaymentDetails(paymentId) and getPaymentDetailsOrThrow(paymentId)
TwinGetPaymentDetails(paymentId) ==
    /\ client # Undefined /\ calls = NoCalls
    /\ LET httpRequest ==
               HttpRequest(Val(client), <<"/payments/", paymentId>>, "GET", Undefined)
       IN  calls' = TwinCalls(
                Begun("getPaymentDetails", Undefined, Some(paymentId),
                      validatePaymentId(paymentId), httpRequest),
                Begun("getPaymentDetailsOrThrow", Undefined, Some(paymentId),
                      requirePaymentId(paymentId), httpRequest))
    /\ UNCHANGED <<config, client, ctorError, now, stored, handle, callVars>>

\* The two calls once their activations have moved to ms (an activation that
\* stays as it is leaves its call as it is).
TwinMoved(ms) ==
    [i \in Slots |->
        IF i \in Twins /\ ms[i] # calls[i].mr
        THEN [calls[i] EXCEPT !.mr = ms[i], !.result = Outcome(calls[i].op, ms[i])]
        ELSE calls[i]]
\* What an event leaves alone.
TwinFrame == UNCHANGED <<config, client, ctorError, now, stored, handle, callVars>>

\* The conditions under which an activation takes each event.
CanRespond(m) == m.pc = "fetch" /\ ~m.aborted
CanAbort(m) == m.pc = "fetch" /\ m.aborted
CanRead(m, body) ==
    m.pc = "body" /\ body \in (IF Ok(Val(m.response)) THEN OkBodies ELSE ErrorBodies)
CanExpire(m) == m.pc # "idle" /\ m.timerPending /\ now >= m.timeout
CanWake(m) == m.pc = "sleep" /\ now >= m.sleepEnd

\* Each event below reaches each of the two calls that can take it.
TwinFetchResponds(response) ==
    /\ \E i \in Twins : CanRespond(calls[i].mr)
    /\ calls' = TwinMoved([i \in Twins |->
                    IF CanRespond(calls[i].mr) THEN OnResponse(calls[i].mr, response)
                    ELSE calls[i].mr])
    /\ TwinFrame

TwinFetchFails ==
    /\ \E i \in Twins : CanRespond(calls[i].mr)
    /\ calls' = TwinMoved([i \in Twins |->
                    IF CanRespond(calls[i].mr)
                    THEN OnFetchRejected(calls[i].mr, NetworkError, now)
                    ELSE calls[i].mr])
    /\ TwinFrame

TwinFetchAborts ==
    /\ \E i \in Twins : CanAbort(calls[i].mr)
    /\ calls' = TwinMoved([i \in Twins |->
                    IF CanAbort(calls[i].mr)
                    THEN OnFetchRejected(calls[i].mr, AbortError, now)
                    ELSE calls[i].mr])
    /\ TwinFrame

TwinBodyArrives(body) ==
    /\ \E i \in Twins : CanRead(calls[i].mr, body)
    /\ calls' = TwinMoved([i \in Twins |->
                    IF CanRead(calls[i].mr, body) THEN OnBody(calls[i].mr, body, now)
                    ELSE calls[i].mr])
    /\ TwinFrame

TwinDeadlineFires ==
    /\ \E i \in Twins : CanExpire(calls[i].mr)
    /\ calls' = TwinMoved([i \in Twins |->
                    IF CanExpire(calls[i].mr) THEN OnDeadline(calls[i].mr)
                    ELSE calls[i].mr])
    /\ TwinFrame

TwinSleepDone ==
    /\ \E i \in Twins : CanWake(calls[i].mr)
    /\ calls' = TwinMoved([i \in Twins |->
                    IF CanWake(calls[i].mr) THEN OnSleepDone(calls[i].mr)
                    ELSE calls[i].mr])
    /\ TwinFrame

\* Something is due now in one of the two calls.
TwinDue ==
    \E i \in Twins :
        \/ calls[i].mr.timerPending /\ now >= calls[i].mr.timeout
        \/ calls[i].mr.pc = "fetch" /\ calls[i].mr.aborted
        \/ calls[i].mr.pc = "sleep" /\ now >= calls[i].mr.sleepEnd

\* Time passes while one of the two calls is suspended (see Tick).
TwinTick ==
    /\ \E i \in Twins :
          /\ InFlight(i)
          /\ \/ calls[i].mr.pc = "sleep" \/ calls[i].mr.timerPending
             \/ now <= calls[i].mr.timeout
    /\ ~TwinDue
    /\ now < MaxClock * 1000
    /\ now' = now + 1000
    /\ UNCHANGED <<config, client, ctorError, stored, calls, handle, callVars>>

TwinNext ==
    \/ Construct
    \/ \E request \in Requests : TwinInitPayment(request)
    \/ \E paymentId \in PaymentIds : TwinGetPaymentDetails(paymentId)
    \/ \E response \in Responses : TwinFetchResponds(response)
    \/ TwinFetchFails
    \/ TwinFetchAborts
    \/ \E body \in OkBodies \cup ErrorBodies : TwinBodyArrives(body)
    \/ TwinDeadlineFires
    \/ TwinSleepDone
    \/ TwinTick

Twin == TwinInit /\ [][TwinNext]_vars

\* ------------------------------------------------------------ observations
\* The makeRequest call has exited.
Done == mr.pc = "done"
\* The HTTP calls issued so far.
Calls == Cardinality({i \in 1..Len(mr.events) : mr.events[i].type = "call"})
IsSleep(e) == e.type = "sleep"
\* The durations of the sleeps so far, in order.
Sleeps == [i \in 1..Len(SelectSeq(mr.events, IsSleep)) |->
              SelectSeq(mr.events, IsSleep)[i].ms]
\* A status the retry loop must not retry: 400..499 except 429.
TerminalStatus(s) == s >= 400 /\ s <= 499 /\ s # 429
\* A status the retry loop retries: 429 or 500 and above.
RetryableStatus(s) == s = 429 \/ s >= 500
\* The operation invoked.
Op == Val(call).op
\* The operation invoked returns an envelope and has ended.
Enveloped == call # Undefined /\ Op \in EnvelopedOps /\ fnOut # Undefined
\* The envelope returned.
Envelope == Val(result).value

\* ------------------------------------------------------------------ claims
\* C1: a wrapped operation never throws. However its body ended (validation
\* error, classified HTTP error, exhausted retries, an unclassified exception,
\* a thrown value that is no Error), the call returns a {data, error} value.
C1_WrapNeverThrows ==
    Enveloped =>
        /\ result # Undefined
        /\ Val(result).tag = "returned"
        /\ DOMAIN Envelope = {"data", "error"}
\* A wrapped operation of the client whose body threw an unclassified error
\* (isPaymentCompleted reading a null body) and which returned all the same.
C1_Witness ==
    /\ Enveloped /\ Op \in WrappedOps
    /\ Val(fnOut).tag = "threw"
    /\ ~IsSDKError(Val(Val(fnOut).error))
    /\ Val(result).tag = "returned"

\* C2: every envelope has exactly one arm populated: data non-null and error
\* null, or error non-null and data null; also for a 2xx response whose
\* parsed body is null.
C2_ExactlyOneArm ==
    (Enveloped /\ Op \in WrappedOps) =>
        \/ Envelope.data # Undefined /\ Envelope.error = Undefined
        \/ Envelope.data = Undefined /\ Envelope.error # Undefined

\* C3 (as claimed): for a 2xx response, makeRequest returns the parsed body on
\* the first attempt, with exactly one HTTP call and no sleep. Stated of every
\* call that has received 2xx responses only: once the body has been read the
\* call has returned, after one call and no sleep.
C3_SuccessOnFirstAttempt ==
    (/\ mr.statuses # {} /\ mr.statuses \subseteq 200..299
     /\ ~mr.rejected /\ mr.pc # "body")
    => /\ Done
       /\ Val(mr.exit).tag = "returned"
       /\ Calls = 1
       /\ Sleeps = <<>>

\* C4 (as claimed): a response with a status in 400..499 other than 429, on
\* whichever attempt, makes makeRequest fail at once with the classified error
\* of that response: once its body has been read the call has exited, throwing
\* a KonnectSDKError that carries the status.
C4_TerminalFailsImmediately ==
    \A s \in mr.statuses :
        TerminalStatus(s) =>
            \/ mr.pc = "body" /\ Val(mr.response).status = s
            \/ /\ Done
               /\ Val(mr.exit).tag = "threw"
               /\ IsSDKError(Val(Val(mr.exit).error))
               /\ Val(Val(mr.exit).error).statusCode = Some(s)

\* Every response so far had status 429 or >= 500, and no fetch was rejected.
OnlyRetryableResponses ==
    /\ mr.pc # "idle"
    /\ ~mr.rejected
    /\ \A s \in mr.statuses : RetryableStatus(s)
\* The log is call, sleep 1000, call, sleep 2000, call, sleep 4000, ...: one
\* sleep between two consecutive calls, the sleep after 0-indexed attempt k
\* lasting 2^k * 1000 ms.
BackoffLog ==
    \A i \in 1..Len(mr.events) :
        IF i % 2 = 1
        THEN mr.events[i].type = "call"
        ELSE mr.events[i] = SleepEvent((2 ^ ((i \div 2) - 1)) * 1000)

\* C5 (as claimed): with status 429 or >= 500 on every attempt, makeRequest
\* issues at most retryAttempts HTTP calls and sleeps 1000, 2000, 4000, ... ms
\* between consecutive attempts, one sleep between two attempts.
C5_RetriesUpToRetryAttempts ==
    OnlyRetryableResponses =>
        /\ Whole(Calls) <= mr.retryAttempts
        /\ BackoffLog

\* The loop ended without a success and without a terminal 4xx propagation.
Exhausted ==
    /\ Done
    /\ Val(mr.exit).tag = "threw"
    /\ mr.lastError = Undefined \/ ~IsTerminal(Val(mr.lastError))
\* The error makeRequest threw.
Thrown == Val(Val(mr.exit).error)

\* C6: when the retry loop ends without a success and without a terminal 4xx
\* propagation, makeRequest throws an error with code REQUEST_FAILED, no status
\* code, and the message of the last failed attempt ('Request failed after
\* retries' when no failure was captured); a wrapped operation returns it as
\* error.code = 'REQUEST_FAILED'.
C6_ExhaustionIsRequestFailed ==
    Exhausted =>
        /\ IsSDKError(Thrown)
        /\ Thrown.code = Some("REQUEST_FAILED")
        /\ Thrown.statusCode = Undefined
        /\ Thrown.message = IF mr.lastError = Undefined
                            THEN Str("Request failed after retries")
                            ELSE Val(mr.lastError).message
        /\ Op \in WrappedOps =>
              /\ Envelope.data = Undefined
              /\ Envelope.error # Undefined
              /\ Val(Envelope.error).code = Some("REQUEST_FAILED")
\* A wrapped operation whose makeRequest ran out of attempts after a failure.
C6_Witness ==
    /\ Exhausted /\ Op \in WrappedOps
    /\ mr.lastError # Undefined
    /\ Calls >= 2
    /\ Val(Envelope.error).message = Val(mr.lastError).message

\* retryAttempts = 3 and three calls, each answered with status 500.
ThreeTimes500 ==
    /\ Done
    /\ mr.retryAttempts = Whole(3)
    /\ mr.statuses = {500} /\ ~mr.rejected
    /\ Calls = 3

\* C7 (as claimed): with retryAttempts = 3 and 500 on three consecutive
\* attempts, makeRequest fails after exactly two sleeps (1000 ms, 2000 ms) with
\* the classified error of the last response, unchanged; only an unclassified
\* last failure yields the generic REQUEST_FAILED.
C7_ThrowsLastClassifiedError ==
    ThreeTimes500 =>
        /\ Sleeps = <<1000, 2000>>
        /\ Val(mr.exit).tag = "threw"
        /\ IF IsSDKError(Val(mr.lastError))
           THEN Thrown = Val(mr.lastError)
           ELSE Thrown.code = Some("REQUEST_FAILED")
\* C7 (amended): with retryAttempts = 3 and 500 on three consecutive attempts,
\* makeRequest fails after exactly two sleeps (1000 ms, 2000 ms) with the
\* generic error: code REQUEST_FAILED, no status code, no details, and the
\* message of the last attempt's error, whether that error was classified or
\* not.
C7_ThrowsGenericWithLastMessage ==
    ThreeTimes500 =>
        /\ Sleeps = <<1000, 2000>>
        /\ Val(mr.exit).tag = "threw"
        /\ Thrown = KonnectSDKError(Val(mr.lastError).message, Undefined,
                                    Some("REQUEST_FAILED"), Undefined)
\* The third 500 was classified, with status code 500 and body-derived code.
C7_Witness ==
    /\ ThreeTimes500
    /\ IsSDKError(Val(mr.lastError))
    /\ Val(mr.lastError).statusCode = Some(500)
    /\ Val(mr.lastError).code # Undefined
    /\ Thrown.statusCode = Undefined

\* C8 (as claimed): the deadline covers the whole call: whenever a fetch is in
\* flight and config.timeout has elapsed since the call started, that fetch has
\* been aborted, on the second and later attempts as on the first.
C8_DeadlineCoversAllAttempts ==
    (mr.pc = "fetch" /\ now > mr.timeout) => mr.aborted

\* C9: makeRequest arms exactly one deadline timer per call, and on every exit
\* (2xx return, terminal 4xx, exhaustion, zero attempts) the timer is no longer
\* pending.
C9_OneTimerClearedOnExit ==
    /\ mr.pc # "idle" => timersArmed = 1
    /\ Done => ~mr.timerPending
\* Exhaustion after fetches that were all rejected before the deadline: the
\* timer was still pending when the loop ended.
C9_Witness ==
    /\ Exhausted
    /\ mr.rejected /\ mr.statuses = {} /\ ~mr.aborted
    /\ Calls >= 1
    /\ timersArmed = 1 /\ ~mr.timerPending

\* The wrapped operation ended by throwing a classified error.
ThrewClassified ==
    /\ Enveloped
    /\ Val(fnOut).tag = "threw"
    /\ IsSDKError(Val(Val(fnOut).error))

\* C10: when the wrapped operation throws a KonnectSDKError (or subclass),
\* wrapResponse returns data = null and an error whose message, code,
\* statusCode and details are those of the thrown error, and nothing else.
C10_ClassifiedPassesThrough ==
    ThrewClassified =>
        LET e == Val(Val(fnOut).error)
        IN  result = Some(Returned([data |-> Undefined,
                                    error |-> Some([message |-> e.message,
                                                    statusCode |-> e.statusCode,
                                                    code |-> e.code,
                                                    details |-> e.details])]))
\* A 400 response classified as a ValidationError carrying the body as details.
C10_Witness ==
    /\ ThrewClassified /\ Op \in WrappedOps
    /\ mr.statuses = {400}
    /\ Val(Val(fnOut).error).details # Undefined
    /\ Val(Envelope.error).details = Val(Val(fnOut).error).details
    /\ Val(Envelope.error).statusCode = Some(400)

\* The wrapped operation ended by throwing something that is no KonnectSDKError.
ThrewUnclassified ==
    /\ Enveloped
    /\ Val(fnOut).tag = "threw"
    /\ ~IsSDKError(Val(Val(fnOut).error))

\* C11: when the wrapped operation throws something that is no KonnectSDKError,
\* wrapResponse returns data = null and an error with code UNKNOWN_ERROR, no
\* status code, and as message the thrown Error's message, or 'Unknown error'
\* when the thrown value is no Error.
C11_UnclassifiedBecomesUnknown ==
    ThrewUnclassified =>
        LET e == Val(Val(fnOut).error)
        IN  /\ Val(result).tag = "returned"
            /\ Envelope.data = Undefined
            /\ Envelope.error # Undefined
            /\ Val(Envelope.error).code = Some("UNKNOWN_ERROR")
            /\ Val(Envelope.error).statusCode = Undefined
            /\ Val(Envelope.error).message =
                  IF e.cls = "NonError" THEN Str("Unknown error") ELSE e.message
\* An operation that threw an Error with a message of its own.
C11_Witness ==
    /\ ThrewUnclassified
    /\ Val(Val(fnOut).error).cls = "Error"
    /\ Val(Envelope.error).message = Str("boom")
    /\ Val(Envelope.error).code = Some("UNKNOWN_ERROR")

\* handleErrorResponse was called directly and has thrown.
Classified == call # Undefined /\ Op = "handleErrorResponse" /\ fnOut # Undefined
\* The response it was called with, and the error it threw.
ClassifiedResponse == Val(Val(call).response)
ClassifiedError == Val(Val(fnOut).error)
\* The body the classifier looks fields up in: the parsed body, or for a body
\* that does not parse the fallback { message: statusText }.
ClassifiedBody ==
    IF Val(Val(call).body).kind = "unparseable"
    THEN Obj(Some(ClassifiedResponse.statusText), Undefined, Undefined, Undefined)
    ELSE Val(Val(call).body)
\* A field of that body, absent when the body is no object.
BodyField(f) == IF ClassifiedBody.kind = "object" THEN ClassifiedBody[f] ELSE Undefined
\* body.message or the fallback
MessageOr(fallback) ==
    IF Truthy(BodyField("message")) THEN Str(Val(BodyField("message"))) ELSE fallback

\* C12 (as claimed): handleErrorResponse classifies by status alone. 401:
\* code INVALID_AUTH, status 401, message 'Invalid or missing API key'. 404:
\* code PAYMENT_NOT_FOUND, status 404. 400: code VALIDATION_ERROR, status 400,
\* message body.message or 'Validation failed', details the body. Any other
\* status s: statusCode s, code body.code, message body.message or
\* 'HTTP {s}: {statusText}'.
C12_ClassifiesByStatus ==
    Classified =>
        LET e == ClassifiedError
            r == ClassifiedResponse
        IN  IF r.status = 401
            THEN /\ e.code = Some("INVALID_AUTH") /\ e.statusCode = Some(401)
                 /\ e.message = Str("Invalid or missing API key")
            ELSE IF r.status = 404
            THEN e.code = Some("PAYMENT_NOT_FOUND") /\ e.statusCode = Some(404)
            ELSE IF r.status = 400
            THEN /\ e.code = Some("VALIDATION_ERROR") /\ e.statusCode = Some(400)
                 /\ e.message = MessageOr(Str("Validation failed"))
                 /\ e.details = Parsed(ClassifiedBody)
            ELSE /\ e.statusCode = Some(r.status)
                 /\ e.code = BodyField("code")
                 /\ e.message = MessageOr(<<"HTTP ", ToString(r.status), ": ",
                                            r.statusText>>)

\* C13 (as claimed): for a 404 response the error's message contains the
\* body's paymentId when the body has one, and the literal 'unknown' when it
\* has none (an empty or unparseable body included).
C13_NotFoundNamesThePayment ==
    (Classified /\ ClassifiedResponse.status = 404) =>
        IF Truthy(BodyField("paymentId"))
        THEN Contains(ClassifiedError.message, Val(BodyField("paymentId")))
        ELSE Contains(ClassifiedError.message, "unknown")

\* C14 (as claimed): for every non-2xx response and every body (an object, a
\* body that does not parse, an empty body, a parsed value that is no object
\* such as null), handleErrorResponse throws a KonnectSDKError carrying the
\* response's status, and nothing else.
C14_AlwaysClassified ==
    Classified =>
        /\ IsSDKError(ClassifiedError)
        /\ ClassifiedError.statusCode = Some(ClassifiedResponse.status)

\* The request initPayment was called with, and the client's defaults.
CalledRequest == Val(Val(call).request)
ClientDefaults == Val(client).defaults
\* The operation returned an envelope without data whose error has this code.
FailedWith(code) ==
    /\ result # Undefined
    /\ Val(result).tag = "returned"
    /\ Envelope.data = Undefined
    /\ Envelope.error # Undefined
    /\ Val(Envelope.error).code = Some(code)

\* C15: initPayment whose merged request fails validation (no receiverWalletId,
\* amount missing, zero or negative, or a malformed email) returns data = null
\* and an error with code VALIDATION_ERROR, and issues no HTTP call.
C15_InvalidRequestIsRejected ==
    (call # Undefined /\ Op = "initPayment") =>
        LET merged == mergeWithDefaults(ClientDefaults, CalledRequest)
        IN  (\/ ~Truthy(merged.receiverWalletId)
             \/ merged.amount = Undefined
             \/ Val(merged.amount) <= 0
             \/ Truthy(merged.email) /\ ~isValidEmail(Val(merged.email)))
            => /\ FailedWith("VALIDATION_ERROR")
               /\ Calls = 0
               /\ mr = NoActivation
\* initPayment({ amount: -100 }) on a client whose defaults hold a wallet.
C15_Witness ==
    /\ call # Undefined /\ Op = "initPayment"
    /\ Truthy(ClientDefaults.receiverWalletId)
    /\ CalledRequest.amount = Some(0 - 100)
    /\ FailedWith("VALIDATION_ERROR")
    /\ Calls = 0

\* C16: getPaymentDetails with an empty or whitespace-only paymentId returns
\* data = null and an error with code VALIDATION_ERROR, and issues no HTTP call.
C16_BlankPaymentIdIsRejected ==
    (call # Undefined /\ Op = "getPaymentDetails"
     /\ \A i \in 1..Len(Val(Val(call).paymentId)) : Val(Val(call).paymentId)[i] = " ")
    => /\ FailedWith("VALIDATION_ERROR")
       /\ Calls = 0
       /\ mr = NoActivation
\* getPaymentDetails(' ')
C16_Witness ==
    /\ call # Undefined /\ Op = "getPaymentDetails"
    /\ Val(call).paymentId = Some(<<" ">>)
    /\ FailedWith("VALIDATION_ERROR")
    /\ Calls = 0

\* What the claim expects in the merged request for a defaultable field: the
\* request's value when the request supplies one, the client default otherwise.
RequestOrDefault(f) ==
    IF CalledRequest[f] # Undefined THEN CalledRequest[f] ELSE ClientDefaults[f]

\* C17 (as claimed): the body initPayment sends is the request merged with the
\* client defaults, request fields winning: a field the request supplies keeps
\* its value, a defaultable field it does not supply takes the default; and
\* the merge precedes validation, so a request without receiverWalletId passes
\* validation when the defaults provide one.
C17_RequestFieldsWin ==
    (call # Undefined /\ Op \in {"initPayment", "initPaymentOrThrow"}) =>
        /\ mr.pc # "idle" =>
              Val(mr.request).body =
                  Some([receiverWalletId |-> RequestOrDefault("receiverWalletId"),
                        amount |-> CalledRequest.amount,
                        email |-> CalledRequest.email,
                        theme |-> RequestOrDefault("theme")])
        /\ (/\ Truthy(RequestOrDefault("receiverWalletId"))
            /\ CalledRequest.amount # Undefined /\ Val(CalledRequest.amount) > 0
            /\ CalledRequest.email = Undefined)
           => mr.pc # "idle"

\* ------------------------------------------------- claims on several calls
\* The activations a makeRequest call running alone in slot s can move to at
\* time t: by a response, the rejection of an aborted fetch, a body, the end of
\* its sleep, or its own deadline.
LoneSuccessors(s, t) ==
    LET m == s.mr
    IN  {OnResponse(m, r) :
            r \in IF m.pc = "fetch" /\ ~m.aborted THEN SessionResponses ELSE {}}
        \cup {OnFetchRejected(m, AbortError, t) :
                x \in IF m.pc = "fetch" /\ m.aborted THEN {1} ELSE {}}
        \cup {OnBody(m, b, t) : b \in IF m.pc = "body" THEN SessionBodies ELSE {}}
        \cup {OnSleepDone(m) :
                x \in IF m.pc = "sleep" /\ t >= m.sleepEnd THEN {1} ELSE {}}
        \cup {OnDeadline(m) :
                x \in IF m.timerPending /\ t >= s.started + m.timeout THEN {1} ELSE {}}

\* C18: calls running concurrently on one client share no mutable state. Every
\* step changes the call of one slot only, and changes it as a step of that
\* call running alone would (so its attempts, sleeps and outcome are those of a
\* lone run against the same responses); a call is aborted by its own deadline
\* only.
C18_CallsAreIndependent ==
    [][\A i \in Slots :
          calls'[i] # calls[i] =>
              /\ \A j \in Slots \ {i} : calls'[j] = calls[j]
              /\ \/ /\ calls[i] = FreeSlot
                    /\ calls'[i].started = now
                    /\ calls'[i].mr.attempt = 0 /\ ~calls'[i].mr.aborted
                 \/ /\ calls'[i] = FreeSlot
                    /\ calls[i].result # Undefined
                 \/ /\ calls'[i].mr \in LoneSuccessors(calls[i], now)
                    /\ calls'[i] = [calls[i] EXCEPT
                                      !.mr = calls'[i].mr,
                                      !.result = Outcome(calls[i].op, calls'[i].mr)]
      ]_vars
\* Two calls in flight, the first aborted by its deadline, the second, invoked
\* later, still waiting for its response with its own deadline pending.
C18_Witness ==
    \E i, j \in Slots :
        /\ i # j
        /\ calls[i].mr.aborted /\ calls[i].mr.pc = "fetch"
        /\ calls[j].started > calls[i].started
        /\ calls[j].mr.pc = "fetch" /\ ~calls[j].mr.aborted /\ calls[j].mr.timerPending

\* The call of slot i has ended with an error, or with data.
EndedWithError(i) ==
    calls[i].result # Undefined /\ Val(calls[i].result).value.error # Undefined
EndedWithData(i) ==
    calls[i].result # Undefined /\ Val(calls[i].result).value.data # Undefined

\* C19: the client's configuration (API key, base URL, timeout, retry count,
\* defaults) is set once by the constructor: whatever public operations have
\* been called since, each field has the value the constructor stored.
C19_ConfigurationNeverChanges ==
    /\ client # Undefined => client = stored
    /\ stored # Undefined => client = stored
\* One call has failed, another has succeeded, and an object returned by
\* getDefaults has been assigned to.
C19_Witness ==
    /\ client # Undefined
    /\ \E i, j \in Slots :
          /\ EndedWithError(i) /\ EndedWithData(j)
          /\ calls[j].op = "initPayment"
    /\ Assigned

\* C20: getDefaults returns the defaults given to the constructor, as a copy:
\* an assignment to a field of the returned object changes neither what a later
\* getDefaults returns nor what a later initPayment merges into its request.
C20_GetDefaultsReturnsACopy ==
    /\ (handle # Undefined /\ ~Val(handle).assigned) =>
          Val(handle).fields = Val(stored).defaults
    /\ \A i \in Slots :
          (calls[i].op = "initPayment" /\ calls[i].mr.pc # "idle") =>
              Val(calls[i].mr.request).body =
                  Some(Stringify(mergeWithDefaults(Val(stored).defaults,
                                                   Val(calls[i].request))))
\* After an assignment to a returned object, getDefaults was called again and
\* an initPayment without a wallet was invoked; the object assigned to differs
\* from the defaults.
C20_Witness ==
    /\ handle # Undefined /\ Val(handle).again /\ ~Val(handle).assigned
    /\ Val(handle).fields = Val(stored).defaults
    /\ \E i \in Slots :
          /\ calls[i].op = "initPayment" /\ calls[i].afterAssign
          /\ "receiverWalletId" \notin Val(calls[i].request).keys
          /\ calls[i].mr.pc # "idle"
          /\ Val(Val(calls[i].mr.request).body).receiverWalletId
                = Val(stored).defaults.receiverWalletId

\* ------------------------------------------------- claims on the constructor
\* The API key is missing, empty or made of spaces only.
BlankApiKey(c) ==
    c.apiKey = Undefined \/ \A i \in 1..Len(Val(c.apiKey)) : Val(c.apiKey)[i] = " "
\* The timeout or retryAttempts given is negative.
NegativeOption(c) ==
    \/ c.timeout # Undefined /\ Val(c.timeout) < 0
    \/ c.retryAttempts # Undefined /\ Val(c.retryAttempts) < 0
\* The step in which the constructor runs.
Constructing == config # Undefined /\ config' = Undefined

\* C21: the constructor rejects an invalid configuration by throwing a
\* ValidationError (code VALIDATION_ERROR) and creating no client: a missing,
\* empty or whitespace-only apiKey fails with message 'API key is required',
\* and a negative timeout or negative retryAttempts is rejected as well.
C21_ConstructorRejectsInvalidConfig ==
    [][Constructing =>
          LET c == Val(config)
          IN  /\ (BlankApiKey(c) \/ NegativeOption(c)) =>
                    /\ client' = Undefined
                    /\ ctorError' # Undefined
                    /\ Val(ctorError').cls = "ValidationError"
                    /\ Val(ctorError').code = Some("VALIDATION_ERROR")
              /\ BlankApiKey(c) =>
                    Val(ctorError').message = Str("API key is required")
      ]_vars
\* The constructor threw for the API key and left no client.
C21_Witness ==
    /\ config = Undefined /\ client = Undefined
    /\ ctorError # Undefined
    /\ Val(ctorError).message = Str("API key is required")

\* C22: getEnvironment returns the environment the client was constructed
\* with ('sandbox' or 'production'), and 'sandbox' when none was given;
\* requests of that client go to the base URL of that same environment.
C22_EnvironmentIsTheConstructed ==
    [][/\ (Constructing /\ client' # Undefined) =>
             getEnvironment(Val(client')) =
                 IF Val(config).environment = Undefined THEN "sandbox"
                 ELSE Val(Val(config).environment)
       /\ (call' # Undefined /\ Val(call').op \in WrappedOps \cup LegacyOps
           /\ mr'.pc # "idle") =>
             LET url == Val(mr'.request).url
                 base == BASE_URLS[getEnvironment(Val(client'))]
             IN  /\ Len(url) > Len(base)
                 /\ SubSeq(url, 1, Len(base)) = base
      ]_vars
\* A client constructed for production whose request went to the production
\* base URL.
C22_Witness ==
    /\ client # Undefined /\ getEnvironment(Val(client)) = "production"
    /\ call # Undefined /\ Op \in WrappedOps
    /\ mr.pc # "idle"
    /\ SubSeq(Val(mr.request).url, 1, 2) = BASE_URLS.production

\* ----------------------------------------------- claims on the deadline
\* The makeRequest call is suspended: in a fetch, reading a body, or asleep.
Suspended == mr.pc \in {"fetch", "body", "sleep"}

\* C23 (as claimed): every makeRequest call eventually exits (returns or
\* fails), even when the transport never answers some attempt, first or
\* later: the deadline eventually fires and aborts the fetch in flight, which
\* then fails as a transport-level failure (timers and the abort handling of
\* the transport being fair).
C23_EveryCallExits == Suspended ~> Done

\* C24 (as claimed): the backoff sleep is cancellable via the per-call
\* deadline: once the deadline has fired (the controller is aborted),
\* makeRequest starts no new backoff sleep, and no time passes in a sleep
\* already in progress.
C24_SleepYieldsToDeadline ==
    [][mr.aborted =>
          /\ mr'.pc = "sleep" => mr.pc = "sleep"
          /\ mr.pc = "sleep" => now' = now
      ]_vars

\* ------------------------------------------------ claims on the attempts
\* A makeRequest call whose retryAttempts is an integer n >= 1, and that n.
IntegerAttempts ==
    mr.pc # "idle" /\ IsInteger(mr.retryAttempts) /\ mr.retryAttempts >= Whole(1)
AttemptsAllowed == mr.retryAttempts \div 2
\* The last thing the call did was to issue an HTTP call.
LastIsCall == mr.events # <<>> /\ mr.events[Len(mr.events)].type = "call"

\* C25: with integer retryAttempts = n >= 1, makeRequest never issues more
\* than n HTTP calls nor sleeps more than n - 1 times; a sleep is always
\* followed by another attempt (the last sleep logged is the one in progress);
\* no sleep follows the n-th attempt; and when all n attempts fail retryably
\* there are exactly n calls and n - 1 sleeps.
C25_AttemptsAndSleepsBounded ==
    IntegerAttempts =>
        /\ Calls <= AttemptsAllowed
        /\ Len(Sleeps) <= AttemptsAllowed - 1
        /\ \A i \in 1..Len(mr.events) :
              mr.events[i].type = "sleep" =>
                  IF i < Len(mr.events) THEN mr.events[i + 1].type = "call"
                  ELSE mr.pc = "sleep"
        /\ Calls = AttemptsAllowed => LastIsCall
        /\ Exhausted => Calls = AttemptsAllowed /\ Len(Sleeps) = AttemptsAllowed - 1
\* Two attempts allowed, both answered 429: two calls, one sleep between them.
C25_Witness ==
    /\ IntegerAttempts /\ AttemptsAllowed = 2
    /\ Exhausted
    /\ mr.statuses = {429} /\ ~mr.rejected
    /\ Calls = 2 /\ Sleeps = <<1000>>

\* Some attempt of the call was answered with a 2xx response.
GotSuccess == \E s \in mr.statuses : s >= 200 /\ s <= 299
\* The body of a 2xx response is being read.
ReadingSuccess == mr.pc = "body" /\ Ok(Val(mr.response))

\* C26 (as claimed): if attempts 0..k-1 fail retryably and attempt k gets a
\* 2xx response, the call returns that response's parsed body after exactly k
\* sleeps and k+1 HTTP calls, and no further attempt or sleep follows: once
\* the body of a 2xx response has been read the call has returned, the
\* attempt counter still at k.
C26_SuccessOnAttemptK ==
    (GotSuccess /\ ~ReadingSuccess) =>
        /\ Done
        /\ Val(mr.exit).tag = "returned"
        /\ Calls = mr.attempt + 1
        /\ Len(Sleeps) = mr.attempt
        /\ LastIsCall

\* The errors of a transport-level failure: no response, no HTTP status.
TransportErrors == {NetworkError, AbortError}
\* The step in which the fetch in flight is rejected.
FetchRejected == mr.pc = "fetch" /\ mr'.pc \in {"sleep", "done"}
\* The attempt that failed was not the last one allowed.
MoreAllowed == Whole(mr.attempt + 1) < mr.retryAttempts

\* C27: a transport-level failure of an attempt (network error or abort) is
\* retryable and never terminal. Unless it was the last allowed attempt,
\* makeRequest sleeps 2^attempt * 1000 ms and then issues the next attempt;
\* and a call that ends after such a failure has used up its attempts and
\* throws the generic error, not the transport's.
C27_TransportFailureIsRetried ==
    [][/\ FetchRejected =>
             /\ mr'.lastError # Undefined /\ Val(mr'.lastError) \in TransportErrors
             /\ MoreAllowed =>
                   /\ mr'.pc = "sleep"
                   /\ mr'.sleepEnd = now + Backoff(mr.attempt)
       /\ (/\ mr.pc = "sleep" /\ mr'.pc # "sleep"
           /\ Val(mr.lastError) \in TransportErrors /\ MoreAllowed) =>
             /\ mr'.pc = "fetch"
             /\ mr'.attempt = mr.attempt + 1
       /\ (/\ mr.pc \in {"fetch", "sleep"} /\ mr'.pc = "done"
           /\ mr'.lastError # Undefined /\ Val(mr'.lastError) \in TransportErrors) =>
             /\ Whole(Calls) >= mr.retryAttempts
             /\ Val(mr'.exit).tag = "threw"
             /\ Val(Val(mr'.exit).error).code = Some("REQUEST_FAILED")
      ]_vars
\* The first fetch failed on the network before the deadline; after the sleep
\* the second attempt is in flight.
C27_Witness ==
    /\ mr.pc = "fetch" /\ mr.attempt = 1
    /\ mr.lastError = Some(NetworkError)
    /\ ~mr.aborted
    /\ Sleeps = <<1000>>

\* makeRequest was called directly with retryAttempts = 0.
ZeroAttempts ==
    call # Undefined /\ Op = "makeRequest" /\ mr.pc # "idle" /\ mr.retryAttempts = 0

\* C28: makeRequest called with retryAttempts = 0 performs no HTTP call and no
\* sleep, and fails at once (no time passes) with the generic error: code
\* REQUEST_FAILED, no status code, message 'Request failed after retries'.
C28_ZeroAttemptsFailsAtOnce ==
    ZeroAttempts =>
        /\ Done
        /\ mr.events = <<>>
        /\ now = 0
        /\ mr.exit = Some(Threw(KonnectSDKError(Str("Request failed after retries"),
                                                Undefined, Some("REQUEST_FAILED"),
                                                Undefined)))
        /\ result = mr.exit
\* The direct call with retryAttempts = 0 has thrown, without a fetch.
C28_Witness ==
    /\ ZeroAttempts /\ Done
    /\ Calls = 0
    /\ mr.lastError = Undefined
    /\ Val(result).tag = "threw"

\* An option the caller left out or gave as 0.
AbsentOrZero(o) == o = Undefined \/ Val(o) = 0
\* The operations of the client that call this.request.
ClientOps == WrappedOps \cup LegacyOps

\* C29 (as claimed): every client the constructor accepts holds
\* retryAttempts >= 1 and timeout > 0 (an absent or zero retryAttempts becomes
\* 3, an absent or zero timeout 30000), so no call through the client runs
\* makeRequest with zero attempts, and every public call that passes
\* validation issues at least one HTTP call.
C29_ClientAlwaysAttempts ==
    [][/\ (Constructing /\ client' # Undefined) =>
             /\ Val(client').retryAttempts >= Whole(1)
             /\ Val(client').timeout > 0
             /\ AbsentOrZero(Val(config).retryAttempts) =>
                   Val(client').retryAttempts = Whole(3)
             /\ AbsentOrZero(Val(config).timeout) => Val(client').timeout = 30000
       /\ (call' # Undefined /\ Val(call').op \in ClientOps /\ mr'.pc # "idle") =>
             /\ mr'.retryAttempts > 0
             /\ mr'.events # <<>> /\ mr'.events[1].type = "call"
      ]_vars

\* C30: once the deadline of a makeRequest call has fired while the call is
\* running, no later attempt succeeds: no response is received any more (and
\* none had been, the timer being cleared by the first response), every
\* failure recorded is a transport-level one, and the call ends with an error
\* of code REQUEST_FAILED and no status code, never with a success and never
\* with a classified HTTP error.
C30_NoSuccessAfterDeadline ==
    mr.aborted =>
        /\ mr.pc \in {"fetch", "sleep", "done"}
        /\ mr.statuses = {} /\ mr.response = Undefined
        /\ mr.lastError # Undefined => Val(mr.lastError) \in TransportErrors
        /\ Done =>
              /\ Val(mr.exit).tag = "threw"
              /\ IsSDKError(Thrown)
              /\ Thrown.code = Some("REQUEST_FAILED")
              /\ Thrown.statusCode = Undefined
              /\ mr.lastError # Undefined
\* The deadline aborted the first fetch; the call went on to a second attempt,
\* rejected at once, and ended.
C30_Witness ==
    /\ mr.aborted /\ Done
    /\ Calls >= 2
    /\ mr.lastError = Some(AbortError)
    /\ Thrown.code = Some("REQUEST_FAILED")

\* ------------------------------------------ claims on the payment identifier
\* The public operations that take a paymentId.
PaymentIdOps ==
    {"getPaymentDetails", "isPaymentCompleted", "isPaymentExpired",
     "getPaymentDetailsOrThrow"}
\* The operation was called with an empty or whitespace-only paymentId.
CalledWithBlankId ==
    /\ call # Undefined /\ Op \in PaymentIdOps
    /\ \A i \in 1..Len(Val(Val(call).paymentId)) : Val(Val(call).paymentId)[i] = " "

\* C31 (as claimed): every public operation that takes a paymentId
\* (getPaymentDetails, isPaymentCompleted, isPaymentExpired,
\* getPaymentDetailsOrThrow) rejects an empty or whitespace-only paymentId
\* with a VALIDATION_ERROR before any HTTP call is issued: the enveloped ones
\* return it as their error, the throwing one throws it.
C31_EveryOperationRejectsBlankId ==
    CalledWithBlankId =>
        /\ mr = NoActivation
        /\ result # Undefined
        /\ IF Op \in WrappedOps THEN FailedWith("VALIDATION_ERROR")
           ELSE /\ Val(result).tag = "threw"
                /\ Val(Val(result).error).code = Some("VALIDATION_ERROR")

\* --------------------------------------- claims on the throwing operations
\* The enveloped call and its throwing twin, once invoked.
TwinsInvoked == calls[1].op # "none"
EnvelopedCall == calls[1]
ThrowingCall == calls[2]

\* C32: the throwing operations agree with their enveloped counterparts. For
\* the same argument and the same transport answers, initPayment /
\* getPaymentDetails and initPaymentOrThrow / getPaymentDetailsOrThrow send
\* the same request and issue the same HTTP calls and sleeps, and end at the
\* same time; the enveloped one returns {data: d, error: null} exactly when
\* the throwing one resolves to d, and returns an error e exactly when the
\* throwing one throws a KonnectSDKError whose message, code, statusCode and
\* details are those of e.
C32_ThrowingAgreesWithEnveloped ==
    TwinsInvoked =>
        /\ EnvelopedCall.mr = ThrowingCall.mr
        /\ (EnvelopedCall.result = Undefined) <=> (ThrowingCall.result = Undefined)
        /\ EnvelopedCall.result # Undefined =>
              LET envelope == Val(EnvelopedCall.result).value
                  thrown == Val(ThrowingCall.result)
              IN  /\ Val(EnvelopedCall.result).tag = "returned"
                  /\ (envelope.error = Undefined) <=> (thrown.tag = "returned")
                  /\ thrown.tag = "returned" => envelope.data = thrown.value
                  /\ thrown.tag = "threw" =>
                        /\ IsSDKError(Val(thrown.error))
                        /\ envelope.data = Undefined
                        /\ envelope.error =
                              Some([message |-> Val(thrown.error).message,
                                    statusCode |-> Val(thrown.error).statusCode,
                                    code |-> Val(thrown.error).code,
                                    details |-> Val(thrown.error).details])
\* After a retried 500, a 400 answered the second attempt: the throwing twin
\* threw the ValidationError with the body as details, the enveloped one
\* returned the same as its error.
C32_Witness ==
    /\ TwinsInvoked
    /\ ThrowingCall.result # Undefined
    /\ Val(ThrowingCall.result).tag = "threw"
    /\ ThrowingCall.mr.statuses = {500, 400}
    /\ Val(Val(ThrowingCall.result).error).details # Undefined
    /\ Val(Val(EnvelopedCall.result).value.error).statusCode = Some(400)
    /\ Len(EnvelopedCall.mr.events) = 3

====
